---- MODULE Spec2Model ----
(***************************************************************************)
(* Model of the text-to-speech generator page: TTSService (ttsService.js), *)
(* the TextToSpeechGenerator page component and the AudioPlayer component. *)
(***************************************************************************)
EXTENDS Integers, Sequences, FiniteSets, TLC

VARIABLES
    apiKey,        \* import.meta.env.VITE_OPENAI_API_KEY: "missing", "placeholder" or "configured"
    user,          \* useAuth().user: "none" or a user id
    mounted,       \* the TextToSpeechGenerator component is mounted
    page,          \* the useState cells of TextToSpeechGenerator
    calls,         \* the generateSpeechWithFallback calls in flight and the latest finished
                   \* ones, in call order
    started,       \* how many calls were started: by the page, by other callers
    urls,          \* every object URL made by URL.createObjectURL, in creation order
    timers,        \* pending setTimeout callbacks
    player,        \* the useState cells of AudioPlayer and the <audio> element it renders
    pendingPlays,  \* audio.play() promises that have not settled
    pm,            \* PresetManager: its useState cells, its pending Supabase requests,
                   \* localStorage['tts-presets'] and the voice_presets rows of the user
    probe,         \* the latest call of a pure function of TTSService and its outcome
    auth,          \* AuthProvider: its useState cells next to user, and its pending
                   \* user_profiles requests
    modal          \* the useState cells of Header and of AuthModal, and the pending
                   \* submissions of the form

vars == <<apiKey, user, mounted, page, calls, started, urls, timers, player, pendingPlays,
          pm, probe, auth, modal>>

\* Bounds of the model.
MaxTextLen == 2
MaxGen == 2
MaxDirect == 1
MaxDownloads == 1
MaxPending == 1
MaxPresets == 2
MaxAuthChanges == 2
MaxWordCount == 160

\* useState(null) for audioUrl and audioBlob; undefined reads the same (falsy).
NoUrl == 0

Chars == {"a", " "}
Texts == UNION {[1..n -> Chars] : n \in 0..MaxTextLen}
\* the texts typed into the page: empty, blank, and a word with a leading blank
PageTexts == {<<>>, <<" ">>, <<" ", "a">>}
ApiKeys == {"missing", "placeholder", "configured"}
Users == {"none", "u1"}

\* useState defaults of the five voice settings
DefaultSettings ==
    [ voiceStyle |-> "female", voiceSpeed |-> "normal", voicePitch |-> "medium",
      emotion |-> "neutral", character |-> "chloe" ]

\* no pure function has been called
NoProbe == [op |-> "none"]

\* the value of an async function that returns nothing
Undefined == [undefined |-> TRUE]

----------------------------------------------------------------------------
\* String.prototype.trim and split(/\s+/) on sequences of characters

RECURSIVE TrimStart(_)
TrimStart(s) ==
    IF s = <<>> THEN s
    ELSE IF Head(s) = " " THEN TrimStart(Tail(s)) ELSE s

RECURSIVE TrimEnd(_)
TrimEnd(s) ==
    IF s = <<>> THEN s
    ELSE IF s[Len(s)] = " " THEN TrimEnd(SubSeq(s, 1, Len(s) - 1)) ELSE s

Trim(s) == TrimEnd(TrimStart(s))

\* number of pieces of s.split(/\s+/): one more than the number of whitespace runs
RECURSIVE SplitCount(_)
SplitCount(s) ==
    IF s = <<>> THEN 1
    ELSE IF Head(s) = " " THEN 1 + SplitCount(TrimStart(s))
    ELSE SplitCount(Tail(s))

----------------------------------------------------------------------------
\* Number arithmetic: IEEE 754 binary64.  A positive number is [m, e]: m its
\* significand as MantissaBits bits, most significant (a 1) first, e the
\* exponent of that first bit

MantissaBits == 53

\* a / b scaled by powers of two until 1 <= a / b < 2
RECURSIVE Normalise(_, _, _)
Normalise(a, b, e) ==
    IF a < b THEN Normalise(2 * a, b, e - 1)
    ELSE IF a >= 2 * b THEN Normalise(a, 2 * b, e + 1)
    ELSE [a |-> a, b |-> b, e |-> e]

\* 2^k modulo b
RECURSIVE Pow2Mod(_, _)
Pow2Mod(k, b) ==
    IF k = 0 THEN 1 % b
    ELSE LET h == Pow2Mod(k \div 2, b)
         IN  (h * h * (IF k % 2 = 1 THEN 2 ELSE 1)) % b

\* the remainder of the long division r / b (r < b) after k quotient bits
RemAfter(r, b, k) == (r * Pow2Mod(k, b)) % b

\* the first n bits of the quotient r / b (r < b), and the remainder left
DivBits(r, b, n) ==
    [ bits |-> [k \in 1..n |-> IF 2 * RemAfter(r, b, k - 1) >= b THEN 1 ELSE 0],
      rem  |-> RemAfter(r, b, n) ]

\* bits plus one, for bits that are not all ones
IncBits(bits) ==
    LET z == CHOOSE i \in 1..Len(bits) :
                 bits[i] = 0 /\ \A k \in (i + 1)..Len(bits) : bits[k] = 1
    IN  [i \in 1..Len(bits) |-> IF i < z THEN bits[i] ELSE IF i = z THEN 1 ELSE 0]

\* round to nearest, ties to even: m the kept bits, guard the first dropped
\* bit, sticky whether anything non-zero follows it
RoundToNearestEven(m, guard, sticky, e) ==
    IF guard = 1 /\ (sticky \/ m[Len(m)] = 1)
    THEN IF \A i \in 1..Len(m) : m[i] = 1
         THEN [m |-> [i \in 1..Len(m) |-> IF i = 1 THEN 1 ELSE 0], e |-> e + 1]
         ELSE [m |-> IncBits(m), e |-> e]
    ELSE [m |-> m, e |-> e]

\* the Number a / b for positive integers a and b
Divide(a, b) ==
    LET n == Normalise(a, b, 0)
        q == DivBits(n.a - n.b, n.b, MantissaBits)
    IN  RoundToNearestEven(<<1>> \o SubSeq(q.bits, 1, MantissaBits - 1),
                           q.bits[MantissaBits], q.rem # 0, n.e)

\* the integer of at most 30 bits, computed on the two halves of bits
RECURSIVE BitsToNat(_)
BitsToNat(bits) ==
    IF Len(bits) = 0 THEN 0
    ELSE IF Len(bits) = 1 THEN bits[1]
    ELSE LET h == Len(bits) \div 2
         IN  BitsToNat(SubSeq(bits, 1, h)) * 2^(Len(bits) - h)
               + BitsToNat(SubSeq(bits, h + 1, Len(bits)))

\* the low n bits of the integer c, most significant first
NatToBits(c, n) == [i \in 1..n |-> (c \div 2^(n - i)) % 2]

\* the bits of the integer c < 2^30 without leading zeros
CarryBits(c) ==
    NatToBits(c, CHOOSE n \in 0..30 : c < 2^n /\ (n = 0 \/ 2^(n - 1) <= c))

\* the significand is multiplied in limbs of LimbBits bits
LimbBits == 24

\* the bits of (bits * k), exactly, for MantissaBits bits and k < 2^7
MulBits(bits, k) ==
    LET n    == Len(bits)
        low  == BitsToNat(SubSeq(bits, n - LimbBits + 1, n))
        mid  == BitsToNat(SubSeq(bits, n - 2 * LimbBits + 1, n - LimbBits))
        high == BitsToNat(SubSeq(bits, 1, n - 2 * LimbBits))
        p0   == low * k
        p1   == mid * k + p0 \div 2^LimbBits
        p2   == high * k + p1 \div 2^LimbBits
    IN  CarryBits(p2) \o NatToBits(p1 % 2^LimbBits, LimbBits)
                      \o NatToBits(p0 % 2^LimbBits, LimbBits)

\* the Number x * k for a small positive integer k
Times(x, k) ==
    LET p == MulBits(x.m, k)
    IN  RoundToNearestEven(SubSeq(p, 1, MantissaBits),
                           IF Len(p) > MantissaBits THEN p[MantissaBits + 1] ELSE 0,
                           \E i \in (MantissaBits + 2)..Len(p) : p[i] = 1,
                           x.e + Len(p) - MantissaBits)

\* Math.ceil of a positive Number below 2^30
Ceil(x) ==
    IF x.e < 0 THEN 1
    ELSE BitsToNat(SubSeq(x.m, 1, x.e + 1))
           + (IF \E i \in (x.e + 2)..Len(x.m) : x.m[i] = 1 THEN 1 ELSE 0)

\* Math.ceil((wordCount / 150) * 60)
EstimateForWordCount(wordCount) == Ceil(Times(Divide(wordCount, 150), 60))

\* the estimates for the word counts of the model, worked out once
DurationTable == [wordCount \in 1..MaxWordCount |-> EstimateForWordCount(wordCount)]

\* const wordCount = text.trim().split(/\s+/).length and the estimate
EstimatedDuration(t) ==
    LET wordCount == SplitCount(Trim(t))
    IN  DurationTable[wordCount]

\* Object.prototype members every object literal inherits (some of them)
ObjectPrototypeKeys == {"constructor", "toString", "valueOf", "hasOwnProperty", "__proto__"}

\* what obj[key] gives for an inherited member: a function or an object
InheritedMember == "[member of Object.prototype]"

\* obj?.[key] || fallback for an object literal obj with string values
LookupOr(obj, key, fallback) ==
    IF key \in DOMAIN obj THEN obj[key]
    ELSE IF key \in ObjectPrototypeKeys THEN InheritedMember
    ELSE fallback

\* const voiceMapping = {...}, written as characters |-> voices
VoiceMapping ==
    [ chloe |-> "alloy", kelly |-> "echo", racheal |-> "fable",
      david |-> "onyx", alex |-> "nova", sarah |-> "shimmer" ]

\* const speedMapping = {...}, the numbers written as their decimal strings
SpeedMapping == [ slow |-> "0.75", normal |-> "1", fast |-> "1.25" ]

\* TTSService.mapVoiceSettings
MapVoiceSettings(settings) ==
    [ voice |-> LookupOr(VoiceMapping, settings.character, "alloy"),
      speed |-> LookupOr(SpeedMapping, settings.voiceSpeed, "1"),
      model |-> "tts-1" ]

----------------------------------------------------------------------------
\* Error messages

KeyMissingMsg == "OpenAI API key is not configured. Please add your API key to the .env file."
TextRequiredMsg == "Text content is required for speech generation."
InvalidKeyMsg == "Invalid or missing OpenAI API key. Please check your configuration."
QuotaMsg == "OpenAI API quota exceeded. Please check your account limits."
NetworkMsg == "Network error. Please check your internet connection and try again."
BothUnavailableMsg == "Both OpenAI and Google Cloud TTS services are unavailable. Please try again later."
DefaultErrorMsg == "Failed to generate audio. Please try again."

\* messages of the errors the provider request can reject with
ProviderErrors ==
    { "Incorrect API key provided",
      "You exceeded your current quota",
      "Failed to fetch",
      "network error",
      "Connection error.",
      "" }

\* error?.message?.includes(needle), tabulated over the messages above
Includes(msg, needle) ==
    CASE needle = "API key" -> msg \in {KeyMissingMsg, "Incorrect API key provided"}
      [] needle = "quota"   -> msg \in {"You exceeded your current quota"}
      [] needle = "network" -> msg \in {"network error"}
      [] needle = "fetch"   -> msg \in {"Failed to fetch"}
      [] OTHER -> FALSE

\* `Speech generation failed: ${error?.message || 'Unknown error'}`
SpeechFailedMsg(msg) ==
    CASE msg = TextRequiredMsg ->
            "Speech generation failed: Text content is required for speech generation."
      [] msg = "Connection error." -> "Speech generation failed: Connection error."
      [] OTHER -> "Speech generation failed: Unknown error"

----------------------------------------------------------------------------
\* TTSService

\* the key check of generateSpeech
KeyNotConfigured == apiKey = "missing" \/ apiKey = "placeholder"

\* a generateSpeechWithFallback call that has not run yet
NewCall(caller, t) ==
    [ caller      |-> caller,     \* "page" (handleGenerate) or "direct"
      text        |-> t,
      settings    |-> DefaultSettings,  \* the voiceSettings argument
      pc          |-> "start",    \* "create", "buffer": awaiting the provider; "save": awaiting
                                  \* saveAudioGeneration; "done"
      log         |-> <<>>,       \* the values passed to onProgress, in order
      primary     |-> 0,          \* requests issued to the primary provider
      fallback    |-> 0,          \* calls of generateSpeechWithGoogleCloud
      openaiError |-> "",         \* message of the error generateSpeech threw, "" if none
      state       |-> "pending",  \* the promise of generateSpeechWithFallback
      result      |-> Undefined,  \* its value once resolved
      rejection   |-> "",         \* its error message once rejected
      saved       |-> "none",     \* saveAudioGeneration: "none", "saved" or "failed"
      logAtThrow  |-> 0,          \* how many onProgress calls preceded the throw of generateSpeech
      resumed     |-> 0 ]         \* how many times the caller's await of the call has returned

\* onProgress?.(v)
OnProgress(c, v) == [c EXCEPT !.log = Append(@, v)]

\* the catch block of generateSpeech: the message of the error it rethrows
CatchClassify(msg) ==
    IF Includes(msg, "API key") THEN InvalidKeyMsg
    ELSE IF Includes(msg, "quota") THEN QuotaMsg
    ELSE IF Includes(msg, "network") \/ Includes(msg, "fetch") THEN NetworkMsg
    ELSE SpeechFailedMsg(msg)

\* generateSpeechWithGoogleCloud: the body is a comment only, the promise
\* resolves with undefined and onProgress is never called
GenerateSpeechWithGoogleCloud(c) ==
    [ok |-> TRUE, value |-> Undefined, call |-> [c EXCEPT !.fallback = @ + 1]]

\* generateSpeechWithFallback without the fallback: the error of generateSpeech is rethrown
FallbackAfter_Rethrow(c) ==
    [c EXCEPT !.state = "rejected", !.rejection = c.openaiError, !.pc = "settled"]

\* the catch block of generateSpeechWithFallback, entered with the error of generateSpeech
FallbackAfter(c) ==
    LET g == GenerateSpeechWithGoogleCloud(c)
    IN  IF g.ok
        THEN [g.call EXCEPT !.state = "resolved", !.result = g.value, !.pc = "settled"]
        ELSE [g.call EXCEPT !.state = "rejected", !.rejection = BothUnavailableMsg,
                            !.pc = "settled"]

\* generateSpeech throws msg: its catch block rethrows, generateSpeechWithFallback catches
PrimaryThrows(c, msg) ==
    FallbackAfter([c EXCEPT !.openaiError = CatchClassify(msg), !.logAtThrow = Len(c.log)])

\* generateSpeech with the text check and the first onProgress call ahead of the key check
GenerateSpeechStart_TextFirst(c) ==
    IF Trim(c.text) = <<>> THEN PrimaryThrows(c, TextRequiredMsg)
    ELSE IF KeyNotConfigured THEN PrimaryThrows(OnProgress(c, 10), KeyMissingMsg)
    ELSE LET c1 == OnProgress(c, 10)
             c2 == OnProgress(c1, 30)
         IN  [c2 EXCEPT !.primary = @ + 1, !.pc = "create"]

\* generateSpeech up to the provider request (lines 517-532)
GenerateSpeechStart(c) ==
    IF KeyNotConfigured THEN PrimaryThrows(c, KeyMissingMsg)
    ELSE IF Trim(c.text) = <<>> THEN PrimaryThrows(c, TextRequiredMsg)
    ELSE LET c1 == OnProgress(c, 10)
             c2 == OnProgress(c1, 30)
         IN  [c2 EXCEPT !.primary = @ + 1, !.pc = "create"]

\* generateSpeech once speech.create has resolved, up to response.arrayBuffer()
GenerateSpeechReceived(c) ==
    [OnProgress(c, 70) EXCEPT !.pc = "buffer"]

\* generateSpeech once arrayBuffer() has resolved; url is the new object URL
GenerateSpeechDecoded(c, url) ==
    LET c1 == OnProgress(c, 90)
        c2 == OnProgress(c1, 100)
    IN  [c2 EXCEPT !.state = "resolved", !.pc = "settled",
                   !.result = [ audioUrl  |-> url,
                                audioBlob |-> url,
                                duration  |-> EstimatedDuration(c.text),
                                format    |-> "mp3" ]]

\* URL.createObjectURL and URL.revokeObjectURL
CreateObjectURL(us, kind) == Append(us, [kind |-> kind, revoked |-> 0])
RevokeObjectURL(us, u) ==
    IF u \in 1..Len(us) THEN [us EXCEPT ![u].revoked = @ + 1] ELSE us

----------------------------------------------------------------------------
\* TextToSpeechGenerator

\* const canGenerate = text?.trim()?.length > 0 && voiceStyle && ... ; the voice
\* settings are never empty (useState defaults, select options, handleLoadPreset defaults)
canGenerate == Len(Trim(page.text)) > 0

\* a GenerateButton with disabled={!canGenerate}
GenerateButtonDisabled_CanGenerateOnly == ~canGenerate

\* GenerateButton: disabled={!canGenerate || isGenerating}
GenerateButtonDisabled == ~canGenerate \/ page.isGenerating

\* volumes are counted in tenths (the slider's step): useState(1) is 10
DefaultVolume == 10

\* a state setter: no effect once the component is unmounted
SetState(p, field, v) == IF mounted THEN [p EXCEPT ![field] = v] ELSE p

\* the cleanup effect with an empty dependency list: nothing is revoked on a change
CleanupOnChange_UnmountOnly(us, old, new) == us

\* useEffect(() => () => { if (audioUrl) URL.revokeObjectURL(audioUrl) }, [audioUrl]):
\* the cleanup runs when a render changes audioUrl
CleanupOnChange(us, old, new) ==
    IF mounted /\ old # new /\ old # NoUrl THEN RevokeObjectURL(us, old) ELSE us

\* AudioPlayer: `if (!isVisible || !audioUrl) return null`, else <audio src={audioUrl}>.
\* A changed audioUrl unmounts the old element and mounts a fresh one; the
\* useState cells of AudioPlayer (isPlaying, currentTime, duration, volume) are
\* kept.  A fresh element is at position 0, its duration is unknown (NaN, read as
\* 0 by `audio.duration || 0`) and its volume is the default 1
RenderAudio(pl, old, new) ==
    IF ~mounted \/ old = new THEN pl
    ELSE [pl EXCEPT !.elem = new, !.media = IF new = NoUrl THEN "none" ELSE "paused",
                    !.playRequested = FALSE, !.restarted = FALSE,
                    !.elemTime = 0, !.elemDuration = 0, !.elemVolume = DefaultVolume]

\* handleGenerate, lines 235-239
ResetForGenerate(p) ==
    LET p1 == SetState(p, "isGenerating", TRUE)
        p2 == SetState(p1, "progress", 0)
        p3 == SetState(p2, "error", "")
        p4 == SetState(p3, "audioUrl", NoUrl)
    IN  SetState(p4, "audioBlob", NoUrl)

\* result?.audioUrl, result?.audioBlob
ResultField(r, f) == IF r = Undefined THEN NoUrl ELSE r[f]

\* the progress value after the onProgress (setProgress) calls log[from+1..]
ProgressAfter(p, log, from) ==
    IF Len(log) > from THEN SetState(p, "progress", log[Len(log)]) ELSE p

\* handleGenerate without its finally block: isGenerating is reset only by the
\* path through saveAudioGeneration
AfterSettle_NoFinally(p, c) ==
    IF c.state = "resolved"
    THEN LET p1 == SetState(p, "audioUrl", ResultField(c.result, "audioUrl"))
             p2 == SetState(p1, "audioBlob", ResultField(c.result, "audioBlob"))
         IN  IF user # "none"
             THEN [page |-> p2, call |-> [c EXCEPT !.pc = "save"], resets |-> 0]
             ELSE [page |-> p2, call |-> [c EXCEPT !.pc = "done"], resets |-> 1]
    ELSE LET msg == IF c.rejection # "" THEN c.rejection ELSE DefaultErrorMsg
         IN  [page |-> SetState(p, "error", msg),
              call |-> [c EXCEPT !.pc = "done"], resets |-> 0]

\* handleGenerate from the settled promise of generateSpeechWithFallback to the
\* next suspension (saveAudioGeneration) or to its end; yields the page state,
\* the call and the number of timers it starts
AfterSettle(p, c) ==
    IF c.state = "resolved"
    THEN LET p1 == SetState(p, "audioUrl", ResultField(c.result, "audioUrl"))
             p2 == SetState(p1, "audioBlob", ResultField(c.result, "audioBlob"))
         IN  IF user # "none"
             THEN [page |-> p2, call |-> [c EXCEPT !.pc = "save"], resets |-> 0]
             ELSE [page |-> SetState(p2, "isGenerating", FALSE),
                   call |-> [c EXCEPT !.pc = "done"], resets |-> 1]
    ELSE LET msg == IF c.rejection # "" THEN c.rejection ELSE DefaultErrorMsg
         IN  [page |-> SetState(SetState(p, "error", msg), "isGenerating", FALSE),
              call |-> [c EXCEPT !.pc = "done"], resets |-> 0]

\* a step of a call that leaves it as c: handleGenerate continues when the
\* promise has settled; a direct caller only receives the outcome
Continue(p, c) ==
    IF c.state = "pending" THEN [page |-> p, call |-> c, resets |-> 0]
    ELSE LET r == [c EXCEPT !.resumed = @ + 1]
         IN  IF c.caller = "page" THEN AfterSettle(p, r)
             ELSE [page |-> p, call |-> [r EXCEPT !.pc = "done"], resets |-> 0]

\* the service ran call c0 on to c: the onProgress calls it made are setProgress
\* calls of the page
Progressed(p, c0, c) ==
    IF c.caller = "page" THEN ProgressAfter(p, c.log, Len(c0.log)) ELSE p

\* the variables a step of call i writes, given the step's outcome r and the
\* object URLs us after the step
Commit(i, r, us) ==
    /\ page' = r.page
    /\ calls' = [calls EXCEPT ![i] = r.call]
    /\ urls' = CleanupOnChange(us, page.audioUrl, r.page.audioUrl)
    /\ player' = RenderAudio(player, page.audioUrl, r.page.audioUrl)
    /\ timers' = [timers EXCEPT !.reset = @ + r.resets]
    /\ UNCHANGED <<modal, auth, pm, probe, apiKey, user, mounted, started, pendingPlays>>

\* a new call c: the records of finished calls are dropped
Begin(r, us) ==
    /\ page' = r.page
    /\ calls' = Append(SelectSeq(calls, LAMBDA d : d.pc # "done"), r.call)
    /\ started' = [started EXCEPT ![r.call.caller] = @ + 1]
    /\ urls' = CleanupOnChange(us, page.audioUrl, r.page.audioUrl)
    /\ player' = RenderAudio(player, page.audioUrl, r.page.audioUrl)
    /\ timers' = [timers EXCEPT !.reset = @ + r.resets]
    /\ UNCHANGED <<modal, auth, pm, probe, apiKey, user, mounted, pendingPlays>>


\* handleGenerate, from the click to its first suspension
HandleGenerate ==
    /\ mounted
    /\ ~GenerateButtonDisabled
    /\ canGenerate
    /\ started.page < MaxGen
    /\ LET c0 == [NewCall("page", page.text) EXCEPT !.settings = page.settings]
           c  == GenerateSpeechStart(c0)
           p  == Progressed(ResetForGenerate(page), c0, c)
       IN  Begin(Continue(p, c), urls)

\* TTSService.generateSpeechWithFallback called by any other caller
TTSCall(t) ==
    /\ started.direct < MaxDirect
    /\ LET c0 == NewCall("direct", t)
           c  == GenerateSpeechStart(c0)
       IN  Begin(Continue(page, c), urls)

\* openai.audio.speech.create resolves
CreateResolves(i) ==
    /\ calls[i].pc = "create"
    /\ LET c == GenerateSpeechReceived(calls[i])
       IN  Commit(i, Continue(Progressed(page, calls[i], c), c), urls)

\* openai.audio.speech.create rejects with message msg
CreateRejects(i, msg) ==
    /\ calls[i].pc = "create"
    /\ LET c == PrimaryThrows(calls[i], msg)
       IN  Commit(i, Continue(Progressed(page, calls[i], c), c), urls)

\* response.arrayBuffer() resolves
BufferResolves(i) ==
    /\ calls[i].pc = "buffer"
    /\ LET us == CreateObjectURL(urls, "generation")
           c  == GenerateSpeechDecoded(calls[i], Len(us))
       IN  Commit(i, Continue(Progressed(page, calls[i], c), c), us)

\* response.arrayBuffer() rejects with message msg
BufferRejects(i, msg) ==
    /\ calls[i].pc = "buffer"
    /\ LET c == PrimaryThrows(calls[i], msg)
       IN  Commit(i, Continue(Progressed(page, calls[i], c), c), urls)

\* handleGenerate without the inner try/catch: a failed save reaches the outer
\* catch (setError)
SaveSettles_Surfaces(i, ok) ==
    /\ calls[i].pc = "save"
    /\ Commit(i, [page   |-> SetState(IF ok THEN page
                                      ELSE SetState(page, "error", DefaultErrorMsg),
                                      "isGenerating", FALSE),
                  call   |-> [calls[i] EXCEPT !.pc = "done",
                                              !.saved = IF ok THEN "saved" ELSE "failed"],
                  resets |-> IF ok THEN 1 ELSE 0], urls)

\* SupabaseService.saveAudioGeneration settles; a failure is logged only
SaveSettles(i, ok) ==
    /\ calls[i].pc = "save"
    /\ Commit(i, [page   |-> SetState(page, "isGenerating", FALSE),
                  call   |-> [calls[i] EXCEPT !.pc = "done",
                                              !.saved = IF ok THEN "saved" ELSE "failed"],
                  resets |-> 1], urls)

\* setTimeout(() => setProgress(0), 1500) fires
ResetTimerFires ==
    /\ timers.reset > 0
    /\ page' = SetState(page, "progress", 0)
    /\ timers' = [timers EXCEPT !.reset = @ - 1]
    /\ UNCHANGED <<modal, auth, pm, probe, apiKey, user, mounted, calls, started, urls, player, pendingPlays>>

\* TextInputArea: onChange, disabled while generating
SetText(t) ==
    /\ mounted
    /\ ~page.isGenerating
    /\ page.text # t
    /\ page' = SetState(page, "text", t)
    /\ UNCHANGED <<modal, auth, pm, probe, apiKey, user, mounted, calls, started, urls, timers, player, pendingPlays>>

\* the options of the five selects of VoiceCustomization used here: the default
\* and one other value of each
SettingOptions ==
    [ voiceStyle |-> {"female", "male"}, voiceSpeed |-> {"normal", "slow"},
      voicePitch |-> {"medium", "low"}, emotion |-> {"neutral", "happy"},
      character |-> {"chloe", "david"} ]

\* a select of VoiceCustomization with no disabled attribute
SetSetting_Enabled(f, v) ==
    /\ mounted
    /\ page.settings[f] # v
    /\ page' = SetState(page, "settings", [page.settings EXCEPT ![f] = v])
    /\ UNCHANGED <<modal, auth, pm, probe, apiKey, user, mounted, calls, started, urls, timers, player,
                   pendingPlays>>

\* VoiceCustomization: onChange of the select of setting f, disabled while generating
SetSetting(f, v) ==
    /\ mounted
    /\ ~page.isGenerating
    /\ page.settings[f] # v
    /\ page' = SetState(page, "settings", [page.settings EXCEPT ![f] = v])
    /\ UNCHANGED <<modal, auth, pm, probe, apiKey, user, mounted, calls, started, urls, timers, player,
                   pendingPlays>>

\* the characters of the decimal digits
DigitChars == <<"0", "1", "2", "3", "4", "5", "6", "7", "8", "9">>

\* String(n).padStart(width, '0') for 0 <= n < 10^width
Pad(n, width) == [i \in 1..width |-> DigitChars[((n \div 10^(width - i)) % 10) + 1]]

\* Date.prototype.toISOString: YYYY-MM-DDTHH:mm:ss.sssZ, the year with a sign
\* and six digits past 9999
ToISOString(d) ==
    (IF d.year <= 9999 THEN Pad(d.year, 4) ELSE <<"+">> \o Pad(d.year, 6))
        \o <<"-">> \o Pad(d.month, 2) \o <<"-">> \o Pad(d.day, 2)
        \o <<"T">> \o Pad(d.hour, 2) \o <<":">> \o Pad(d.minute, 2)
        \o <<":">> \o Pad(d.second, 2) \o <<".">> \o Pad(d.ms, 3) \o <<"Z">>

\* s.slice(0, end)
Slice(s, end) == SubSeq(s, 1, IF end < Len(s) THEN end ELSE Len(s))

\* s.replace(pattern, by) for a pattern without the g flag that matches any one
\* character of class: the first match only
ReplaceFirst(s, class, by) ==
    [i \in 1..Len(s) |->
        IF s[i] \in class /\ \A k \in 1..(i - 1) : s[k] \notin class THEN by ELSE s[i]]

\* s.replace(/[...]/g, by): every character of class
ReplaceAll(s, class, by) == [i \in 1..Len(s) |-> IF s[i] \in class THEN by ELSE s[i]]

\* the characters of the option values of the character and speed selects
CharsOf(v) ==
    CASE v = "chloe"   -> <<"c", "h", "l", "o", "e">>
      [] v = "kelly"   -> <<"k", "e", "l", "l", "y">>
      [] v = "racheal" -> <<"r", "a", "c", "h", "e", "a", "l">>
      [] v = "david"   -> <<"d", "a", "v", "i", "d">>
      [] v = "alex"    -> <<"a", "l", "e", "x">>
      [] v = "sarah"   -> <<"s", "a", "r", "a", "h">>
      [] v = "slow"    -> <<"s", "l", "o", "w">>
      [] v = "normal"  -> <<"n", "o", "r", "m", "a", "l">>
      [] v = "fast"    -> <<"f", "a", "s", "t">>

\* the values of new Date() at a download: an ordinary time, the last
\* millisecond of a year, and a clock set past the year 9999
Dates ==
    { [year |-> 2026, month |-> 11, day |-> 4, hour |-> 7, minute |-> 28, second |-> 1, ms |-> 0],
      [year |-> 1999, month |-> 12, day |-> 31, hour |-> 23, minute |-> 59, second |-> 59,
       ms |-> 999],
      [year |-> 10000, month |-> 1, day |-> 1, hour |-> 0, minute |-> 0, second |-> 0, ms |-> 5] }

\* the clock value of the specifications in which the file name plays no part
SomeDate == CHOOSE d \in Dates : d.year = 2026

\* new Date().toISOString().slice(0, 19).replace(/[:.]/g, '-')
Timestamp(now) == ReplaceAll(Slice(ToISOString(now), 19), {":", "."}, "-")

\* `tts-${character}-${voiceSpeed}-${timestamp}.mp3`
FileName(settings, timestamp) ==
    <<"t", "t", "s", "-">> \o CharsOf(settings.character) \o <<"-">>
        \o CharsOf(settings.voiceSpeed) \o <<"-">> \o timestamp
        \o <<".", "m", "p", "3">>

\* handleDownload and TTSService.downloadAudio at time now; the button is part
\* of AudioPlayer; the file name is the download attribute of the link
HandleDownload(now) ==
    /\ mounted
    /\ page.audioUrl # NoUrl
    /\ page.audioBlob # NoUrl
    /\ Cardinality({u \in 1..Len(urls) : urls[u].kind = "download"}) < MaxDownloads
    /\ urls' = CreateObjectURL(urls, "download")
    /\ timers' = [timers EXCEPT !.revoke = @ \cup {Len(urls')}]
    /\ probe' = [op |-> "download", settings |-> page.settings, now |-> now,
                 filename |-> FileName(page.settings, Timestamp(now))]
    /\ UNCHANGED <<modal, auth, pm, apiKey, user, mounted, page, calls, started, player, pendingPlays>>

\* setTimeout(() => URL.revokeObjectURL(link?.href), 1000) fires
RevokeTimerFires(u) ==
    /\ u \in timers.revoke
    /\ urls' = RevokeObjectURL(urls, u)
    /\ timers' = [timers EXCEPT !.revoke = @ \ {u}]
    /\ UNCHANGED <<modal, auth, pm, probe, apiKey, user, mounted, page, calls, started, player, pendingPlays>>

\* the page unmounts: effect cleanups run, the <audio> element is removed
Unmount ==
    /\ mounted
    /\ mounted' = FALSE
    /\ urls' = IF page.audioUrl # NoUrl THEN RevokeObjectURL(urls, page.audioUrl) ELSE urls
    /\ player' = [player EXCEPT !.elem = NoUrl, !.media = "none"]
    /\ UNCHANGED <<modal, auth, pm, probe, apiKey, user, page, calls, started, timers, pendingPlays>>

\* the character and voiceSpeed values a VoiceSettings object can carry: the
\* options of the selects, and values that only a stored preset can hold
CharacterValues ==
    {"chloe", "kelly", "racheal", "david", "alex", "sarah", "bob", "", "constructor", "toString"}
SpeedValues == {"slow", "normal", "fast", "turbo", "", "valueOf"}

\* a call of TTSService.mapVoiceSettings
MapVoiceSettingsCalled(ch, sp) ==
    /\ LET settings == [DefaultSettings EXCEPT !.character = ch, !.voiceSpeed = sp]
       IN  probe' = [op |-> "mapVoiceSettings", settings |-> settings,
                     out |-> MapVoiceSettings(settings)]
    /\ UNCHANGED <<modal, auth, pm, apiKey, user, mounted, page, calls, started, urls, timers, player,
                   pendingPlays>>

\* the estimate before the latest one, as <<word count, estimate>>; <<>> if none
PriorEstimate ==
    IF probe.op = "estimatedDuration" THEN <<probe.wordCount, probe.out>> ELSE <<>>

\* an estimate that keeps only the seconds within the minute
DurationEstimated_SecondsOfMinute(w) ==
    /\ probe' = [op |-> "estimatedDuration", wordCount |-> w,
                 out |-> DurationTable[w] % 60, prior |-> PriorEstimate]
    /\ UNCHANGED <<modal, auth, pm, apiKey, user, mounted, page, calls, started, urls, timers, player,
                   pendingPlays>>

\* the duration estimate of generateSpeech for a text of w words, made after the
\* estimate for an earlier text
DurationEstimated(w) ==
    /\ probe' = [op |-> "estimatedDuration", wordCount |-> w,
                 out |-> DurationTable[w], prior |-> PriorEstimate]
    /\ UNCHANGED <<modal, auth, pm, apiKey, user, mounted, page, calls, started, urls, timers, player,
                   pendingPlays>>

----------------------------------------------------------------------------
\* PresetManager

RemoveAt(s, k) == SubSeq(s, 1, k - 1) \o SubSeq(s, k + 1, Len(s))

\* what localStorage['tts-presets'] holds when the page is opened: nothing, or
\* a preset saved in an earlier visit
LocalStores ==
    { <<>>, <<[id |-> 101, name |-> "l", origin |-> "local", settings |-> DefaultSettings]>> }

\* the voice_presets rows of the user when the page is opened
RemoteStores ==
    { <<>>, <<[id |-> 201, name |-> "r", origin |-> "remote", settings |-> DefaultSettings]>> }

\* the names typed into the save dialog
PresetNames == {"a", "A", "a "}

\* String.prototype.trim and toLowerCase on those names
TrimName(n) == IF n = "a " THEN "a" ELSE n
ToLowerCase(n) == IF n = "A" THEN "a" ELSE n

\* the persist effect (deps [presets, user?.id]) run with user u
PersistEffect(m, u) ==
    IF u = "none" /\ Len(m.presets) > 0 THEN [m EXCEPT !.local = m.presets] ELSE m

\* loadPresets up to its await, called by user u
LoadPresets(m, u) ==
    IF u = "none" THEN m
    ELSE [m EXCEPT !.loading = TRUE,
                   !.ops = Append(@, [kind |-> "select", by |-> u, id |-> 0,
                                      name |-> "", settings |-> DefaultSettings])]

\* the load effect (deps [user?.id]) run with user u
LoadEffect(m, u) ==
    IF u # "none" THEN LoadPresets(m, u)
    ELSE IF m.local # <<>> THEN [m EXCEPT !.presets = m.local] ELSE m

\* the two effects after a render in which user?.id is new: both run with the
\* presets of that render; the render that setPresets causes runs the persist
\* effect again
EffectsOnUser(m, u) ==
    LET loaded    == LoadEffect(m, u)
        persisted == [loaded EXCEPT !.local = PersistEffect(m, u).local]
    IN  IF loaded.presets # m.presets THEN PersistEffect(persisted, u) ELSE persisted

\* PresetManager after its first render and effects, for user u, with local in
\* localStorage and the rows remote in voice_presets
MountPresetManager(u, local, remote) ==
    EffectsOnUser([ presets |-> <<>>, loading |-> FALSE, showSaveDialog |-> FALSE,
                    saveError |-> "", ops |-> <<>>, local |-> local, remote |-> remote,
                    nextId |-> 1, authChanges |-> 0 ], u)

\* the controls of PresetManager that are disabled={isGenerating || loading}
PresetControlsDisabled == page.isGenerating \/ pm.loading

\* the "Save Current" button: setShowSaveDialog(true)
OpenSaveDialog ==
    /\ mounted
    /\ ~PresetControlsDisabled
    /\ ~pm.showSaveDialog
    /\ pm' = [pm EXCEPT !.showSaveDialog = TRUE]
    /\ UNCHANGED <<modal, auth, probe, apiKey, user, mounted, page, calls, started, urls, timers,
                   player, pendingPlays>>

\* the new preset of handleSavePreset
NewPreset(name, origin) ==
    [ id |-> pm.nextId, name |-> TrimName(name), origin |-> origin,
      settings |-> page.settings ]

\* handleSavePreset, the click on Save in the dialog, up to its await (signed in)
\* or to its end (signed out)
HandleSavePreset(name) ==
    /\ mounted
    /\ pm.showSaveDialog
    /\ ~pm.loading
    /\ TrimName(name) # ""
    /\ pm.nextId <= MaxPresets
    /\ IF \E k \in 1..Len(pm.presets) : ToLowerCase(pm.presets[k].name) = ToLowerCase(name)
       THEN pm' = [pm EXCEPT !.saveError = "A preset with this name already exists"]
       ELSE IF user # "none"
       THEN pm' = [pm EXCEPT !.saveError = "", !.loading = TRUE, !.nextId = @ + 1,
                             !.ops = Append(@, [kind |-> "insert", by |-> user,
                                                id |-> pm.nextId, name |-> TrimName(name),
                                                settings |-> page.settings])]
       ELSE pm' = PersistEffect(
                     [pm EXCEPT !.presets = <<NewPreset(name, "local")>> \o @,
                                !.saveError = "", !.showSaveDialog = FALSE,
                                !.nextId = @ + 1], user)
    /\ UNCHANGED <<modal, auth, probe, apiKey, user, mounted, page, calls, started, urls, timers,
                   player, pendingPlays>>

\* the presets of list l without the one of id i
WithoutId(l, i) == SelectSeq(l, LAMBDA p : p.id # i)

\* handleDeletePreset for the listed preset k, the confirm dialog answered with
\* OK, up to its await (signed in) or to its end (signed out)
HandleDeletePreset(k) ==
    /\ mounted
    /\ ~PresetControlsDisabled
    /\ k \in 1..Len(pm.presets)
    /\ IF user # "none"
       THEN pm' = [pm EXCEPT !.loading = TRUE,
                             !.ops = Append(@, [kind |-> "delete", by |-> user,
                                                id |-> pm.presets[k].id, name |-> "",
                                                settings |-> DefaultSettings])]
       ELSE pm' = PersistEffect([pm EXCEPT !.presets = WithoutId(@, pm.presets[k].id)], user)
    /\ UNCHANGED <<modal, auth, probe, apiKey, user, mounted, page, calls, started, urls, timers,
                   player, pendingPlays>>

\* handleLoadPreset of PresetManager for the listed preset k and handleLoadPreset
\* of the page: a signed-in user reads the columns of a row, a signed-out one
\* the settings object; what is missing falls back to the defaults
HandleLoadPreset(k) ==
    /\ mounted
    /\ ~PresetControlsDisabled
    /\ k \in 1..Len(pm.presets)
    /\ LET preset   == pm.presets[k]
           expected == IF user # "none" THEN "remote" ELSE "local"
           settings == IF preset.origin = expected THEN preset.settings ELSE DefaultSettings
       IN  /\ page.settings # settings
           /\ page' = SetState(page, "settings", settings)
    /\ UNCHANGED <<modal, auth, pm, probe, apiKey, user, mounted, calls, started, urls, timers, player,
                   pendingPlays>>

\* the Supabase request pm.ops[k] settles, with an error or not, and the handler
\* that awaits it runs to its end; the render that follows runs the persist
\* effect with the user of that time
RequestDone(k, ok) ==
    /\ k \in 1..Len(pm.ops)
    /\ LET op   == pm.ops[k]
           row  == [id |-> op.id, name |-> op.name, origin |-> "remote",
                    settings |-> op.settings]
           rows == IF ~ok THEN pm.remote
                   ELSE IF op.kind = "insert" THEN <<row>> \o pm.remote
                   ELSE IF op.kind = "delete" THEN WithoutId(pm.remote, op.id)
                   ELSE pm.remote
           m0   == [pm EXCEPT !.ops = RemoveAt(@, k), !.remote = rows, !.loading = FALSE]
           m1   == IF ~ok
                   THEN [m0 EXCEPT !.saveError =
                            CASE op.kind = "select" -> "Failed to load presets"
                              [] op.kind = "insert" -> "Failed to save preset. Please try again."
                              [] op.kind = "delete" -> "Failed to delete preset"]
                   ELSE IF op.kind = "select" THEN [m0 EXCEPT !.presets = rows]
                   ELSE IF op.kind = "insert"
                   THEN [m0 EXCEPT !.presets = <<row>> \o @, !.showSaveDialog = FALSE]
                   ELSE [m0 EXCEPT !.presets = WithoutId(@, op.id)]
       IN  pm' = IF mounted THEN PersistEffect(m1, user)
                 ELSE [pm EXCEPT !.ops = RemoveAt(@, k), !.remote = rows]
    /\ UNCHANGED <<modal, auth, probe, apiKey, user, mounted, page, calls, started, urls, timers,
                   player, pendingPlays>>

----------------------------------------------------------------------------
\* AuthProvider

\* the accounts that can be signed in to in the specification of AuthProvider
Accounts == {"u1", "u2"}

\* useState(null) of userProfile; a profile is written as the id of its row
NoProfile == "none"

\* AuthProvider after its first render: getSession() is pending
NewAuthProvider ==
    [ userProfile |-> NoProfile, loading |-> TRUE, session |-> "pending", fetches |-> <<>> ]

\* fetchUserProfile(userId) up to its await
FetchUserProfile(a, userId) == [a EXCEPT !.fetches = Append(@, userId)]

\* handleAuthStateChange(event, session), s the user of the session or "none":
\* the cells other than user
HandleAuthStateChange(a, s) ==
    IF s # "none"
    THEN [FetchUserProfile(a, s) EXCEPT !.loading = FALSE]
    ELSE [a EXCEPT !.userProfile = NoProfile, !.loading = FALSE]

\* the callback of getSession().then, s the user of the session or "none": the
\* cells other than user
SessionResolved(a, s) ==
    [(IF s # "none" THEN FetchUserProfile(a, s) ELSE a)
        EXCEPT !.loading = FALSE, !.session = "resolved"]

\* AuthProvider once getSession() has resolved with the session of user u and no
\* auth event has arrived
AuthProviderFor(u) == SessionResolved(NewAuthProvider, u)

\* getSession() resolves: with any session if no auth event came before it,
\* else with the session of the latest event
GetSessionResolves(s) ==
    /\ mounted
    /\ auth.session = "pending"
    /\ pm.authChanges > 0 => s = user
    /\ user' = IF s # "none" THEN s ELSE user
    /\ pm' = IF user' # user THEN EffectsOnUser(pm, user') ELSE pm
    /\ auth' = SessionResolved(auth, s)
    /\ UNCHANGED <<modal, probe, apiKey, mounted, page, calls, started, urls, timers, player,
                   pendingPlays>>

\* handleAuthStateChange with a session: setUser(session.user)
SignIn(u) ==
    /\ mounted
    /\ user = "none"
    /\ u # "none"
    /\ pm.authChanges < MaxAuthChanges
    /\ user' = u
    /\ pm' = EffectsOnUser([pm EXCEPT !.authChanges = @ + 1], u)
    /\ auth' = HandleAuthStateChange(auth, u)
    /\ UNCHANGED <<modal, probe, apiKey, mounted, page, calls, started, urls, timers, player,
                   pendingPlays>>

\* handleAuthStateChange with a session while a user is signed in: the token of
\* the same user was refreshed, or another account signed in (in another tab)
SessionChanged(u) ==
    /\ mounted
    /\ user # "none"
    /\ u # "none"
    /\ pm.authChanges < MaxAuthChanges
    /\ user' = u
    /\ pm' = IF u # user THEN EffectsOnUser([pm EXCEPT !.authChanges = @ + 1], u)
             ELSE [pm EXCEPT !.authChanges = @ + 1]
    /\ auth' = HandleAuthStateChange(auth, u)
    /\ UNCHANGED <<modal, probe, apiKey, mounted, page, calls, started, urls, timers, player,
                   pendingPlays>>

\* handleAuthStateChange without a session (after signOut): setUser(null)
SignOut ==
    /\ mounted
    /\ user # "none"
    /\ pm.authChanges < MaxAuthChanges
    /\ user' = "none"
    /\ pm' = EffectsOnUser([pm EXCEPT !.authChanges = @ + 1], "none")
    /\ auth' = HandleAuthStateChange(auth, "none")
    /\ UNCHANGED <<modal, probe, apiKey, mounted, page, calls, started, urls, timers, player,
                   pendingPlays>>

\* the user_profiles request of the fetchUserProfile call auth.fetches[k]
\* settles, with the row or with an error, and the call runs to its end
ProfileFetchDone(k, ok) ==
    /\ k \in 1..Len(auth.fetches)
    /\ auth' = [auth EXCEPT !.fetches = RemoveAt(@, k),
                            !.userProfile = IF ok THEN auth.fetches[k] ELSE @]
    /\ UNCHANGED <<modal, pm, probe, apiKey, user, mounted, page, calls, started, urls,
                   timers, player, pendingPlays>>

----------------------------------------------------------------------------
\* Header and AuthModal

Modes == {"signin", "signup", "reset"}

\* the modes openAuthModal is called with (the two buttons of Header)
OpenModes == {"signin", "signup"}

\* the values typed into the fields of the form
FieldValues ==
    [ email |-> {"", "x", "a@b.c"}, password |-> {"", "short", "secret1"},
      confirmPassword |-> {"", "secret1"}, fullName |-> {"", "n"} ]

\* !value?.trim(), /\S+@\S+\.\S+/.test(value) and value.length on those values
IsBlank(v) == v = ""
EmailPattern(v) == v = "a@b.c"
StringLength(v) == CASE v = "" -> 0 [] v = "x" -> 1 [] v = "n" -> 1 [] v = "short" -> 5
                     [] v = "a@b.c" -> 5 [] v = "secret1" -> 7

EmptyForm == [email |-> "", password |-> "", confirmPassword |-> "", fullName |-> ""]

\* the errors object, a missing key written as ""
NoErrors ==
    [email |-> "", password |-> "", confirmPassword |-> "", fullName |-> "", general |-> ""]

\* Header and AuthModal after their first render: useState(defaultMode) takes the
\* first authMode
MountHeader ==
    [ showAuthModal |-> FALSE, authMode |-> "signin", mode |-> "signin",
      formData |-> EmptyForm, errors |-> NoErrors, message |-> "", submits |-> <<>> ]

\* validateForm: the errors it finds
ValidateForm(m) ==
    LET f == m.formData
    IN  [ email |->
            IF IsBlank(f.email) THEN "Email is required"
            ELSE IF ~EmailPattern(f.email) THEN "Email is invalid" ELSE "",
          password |->
            IF m.mode = "reset" THEN ""
            ELSE IF IsBlank(f.password) THEN "Password is required"
            ELSE IF StringLength(f.password) < 6
                 THEN "Password must be at least 6 characters" ELSE "",
          fullName |->
            IF m.mode = "signup" /\ IsBlank(f.fullName) THEN "Full name is required" ELSE "",
          confirmPassword |->
            IF m.mode # "signup" THEN ""
            ELSE IF IsBlank(f.confirmPassword) THEN "Please confirm your password"
            ELSE IF f.password # f.confirmPassword THEN "Passwords do not match" ELSE "",
          general |-> "" ]

\* clearForm
ClearForm(m) == [m EXCEPT !.formData = EmptyForm, !.errors = NoErrors, !.message = ""]

\* the fields of the form rendered in mode md
FieldsShown(md) ==
    CASE md = "signin" -> {"email", "password"}
      [] md = "signup" -> {"fullName", "email", "password", "confirmPassword"}
      [] md = "reset"  -> {"email"}

\* the links under the form in mode md: the modes they switch to
ModeLinks(md) == IF md = "signin" THEN {"signup", "reset"} ELSE {"signin"}

\* does signIn / signUp / resetPassword set the loading cell of AuthProvider
SetsLoading(md) == md \in {"signin", "signup"}

\* openAuthModal(md): the Sign In and Get Started buttons of Header, shown
\* while no user is signed in
OpenAuthModal(md) ==
    /\ user = "none"
    /\ ~modal.showAuthModal
    /\ modal' = [modal EXCEPT !.authMode = md, !.showAuthModal = TRUE]
    /\ UNCHANGED <<auth, pm, probe, apiKey, user, mounted, page, calls, started, urls,
                   timers, player, pendingPlays>>

\* the X button of the modal: clearForm(); onClose()
CloseAuthModal ==
    /\ modal.showAuthModal
    /\ modal' = [ClearForm(modal) EXCEPT !.showAuthModal = FALSE]
    /\ UNCHANGED <<auth, pm, probe, apiKey, user, mounted, page, calls, started, urls,
                   timers, player, pendingPlays>>

\* switchMode(newMode), by a link under the form
SwitchMode(newMode) ==
    /\ modal.showAuthModal
    /\ newMode \in ModeLinks(modal.mode)
    /\ modal' = ClearForm([modal EXCEPT !.mode = newMode])
    /\ UNCHANGED <<auth, pm, probe, apiKey, user, mounted, page, calls, started, urls,
                   timers, player, pendingPlays>>

\* handleInputChange for the field name; the inputs are disabled={loading}
HandleInputChange(name, value) ==
    /\ modal.showAuthModal
    /\ ~auth.loading
    /\ name \in FieldsShown(modal.mode)
    /\ modal.formData[name] # value
    /\ modal' = [modal EXCEPT !.formData[name] = value, !.errors[name] = ""]
    /\ UNCHANGED <<auth, pm, probe, apiKey, user, mounted, page, calls, started, urls,
                   timers, player, pendingPlays>>

\* handleSubmit up to its await (or to its end, if the form is invalid); the
\* submit button is disabled={loading}
HandleSubmit ==
    /\ modal.showAuthModal
    /\ ~auth.loading
    /\ Len(modal.submits) < MaxPending
    /\ LET newErrors == ValidateForm(modal)
           m         == [modal EXCEPT !.message = "", !.errors = newErrors]
       IN  IF newErrors # NoErrors
           THEN modal' = m /\ auth' = auth
           ELSE /\ modal' = [m EXCEPT !.submits = Append(@, modal.mode)]
                /\ auth' = [auth EXCEPT !.loading = @ \/ SetsLoading(modal.mode)]
    /\ UNCHANGED <<pm, probe, apiKey, user, mounted, page, calls, started, urls,
                   timers, player, pendingPlays>>

\* the signIn, signUp or resetPassword call of the submission modal.submits[k]
\* returns, with an error or not, and handleSubmit runs to its end with the
\* mode it was started in
SubmitDone(k, ok) ==
    /\ k \in 1..Len(modal.submits)
    /\ LET md == modal.submits[k]
           m  == [modal EXCEPT !.submits = RemoveAt(@, k)]
       IN  /\ modal' =
                IF ~ok THEN [m EXCEPT !.errors = [NoErrors EXCEPT !.general = "error"]]
                ELSE IF md = "signup"
                THEN [m EXCEPT !.message = "Please check your email for a confirmation link."]
                ELSE IF md = "reset"
                THEN [m EXCEPT !.message = "Password reset link sent to your email."]
                ELSE [ClearForm(m) EXCEPT !.showAuthModal = FALSE]
           /\ auth' = IF SetsLoading(md) THEN [auth EXCEPT !.loading = FALSE] ELSE auth
    /\ UNCHANGED <<pm, probe, apiKey, user, mounted, page, calls, started, urls,
                   timers, player, pendingPlays>>

----------------------------------------------------------------------------
\* AudioPlayer

PlayerVisible == mounted /\ player.elem # NoUrl

\* togglePlayPause up to `await audio.play()`.  play() on an element that has
\* ended restarts it from the beginning; on an element in error the promise rejects
TogglePlayPause ==
    /\ PlayerVisible
    /\ IF player.isPlaying
       THEN /\ player' = [player EXCEPT
                            !.media = IF @ = "playing" THEN "paused" ELSE @,
                            !.isPlaying = FALSE]
            /\ UNCHANGED pendingPlays
       ELSE /\ Len(pendingPlays) < MaxPending
            /\ player' = [player EXCEPT
                            !.media = IF @ = "error" THEN @ ELSE "playing",
                            !.playRequested = TRUE,
                            !.restarted = @ \/ player.media = "ended",
                            !.elemTime = IF player.media = "ended" THEN 0 ELSE @]
            /\ pendingPlays' = Append(pendingPlays, player.elem)
    /\ UNCHANGED <<modal, auth, pm, probe, apiKey, user, mounted, page, calls, started, urls, timers>>

\* the promise of audio.play() resolves: playback of that element has started
PlayResolves(k) ==
    /\ k \in 1..Len(pendingPlays)
    /\ pendingPlays[k] = player.elem
    /\ player.media = "playing"
    /\ player' = IF mounted THEN [player EXCEPT !.isPlaying = TRUE] ELSE player
    /\ pendingPlays' = RemoveAt(pendingPlays, k)
    /\ UNCHANGED <<modal, auth, pm, probe, apiKey, user, mounted, page, calls, started, urls, timers>>

\* the promise of audio.play() rejects: the element was removed, paused or is in error
PlayRejects(k) ==
    /\ k \in 1..Len(pendingPlays)
    /\ pendingPlays[k] # player.elem \/ player.media # "playing"
    /\ player' = IF mounted THEN [player EXCEPT !.isPlaying = FALSE] ELSE player
    /\ pendingPlays' = RemoveAt(pendingPlays, k)
    /\ UNCHANGED <<modal, auth, pm, probe, apiKey, user, mounted, page, calls, started, urls, timers>>

\* the 'ended' event without the handleEnded listener
MediaEnded_NoListener ==
    /\ PlayerVisible
    /\ player.media = "playing"
    /\ \A k \in 1..Len(pendingPlays) : pendingPlays[k] # player.elem
    /\ player' = [player EXCEPT !.media = "ended", !.elemTime = player.elemDuration]
    /\ UNCHANGED <<modal, auth, pm, probe, apiKey, user, mounted, page, calls, started, urls, timers, pendingPlays>>

\* the 'ended' event: handleEnded
MediaEnded ==
    /\ PlayerVisible
    /\ player.media = "playing"
    /\ \A k \in 1..Len(pendingPlays) : pendingPlays[k] # player.elem
    /\ player' = [player EXCEPT !.media = "ended", !.isPlaying = FALSE,
                                !.elemTime = player.elemDuration]
    /\ UNCHANGED <<modal, auth, pm, probe, apiKey, user, mounted, page, calls, started, urls, timers, pendingPlays>>

\* the 'error' event: handleError
MediaError ==
    /\ PlayerVisible
    /\ player.media # "error"
    /\ player' = [player EXCEPT !.media = "error", !.isPlaying = FALSE]
    /\ UNCHANGED <<modal, auth, pm, probe, apiKey, user, mounted, page, calls, started, urls, timers, pendingPlays>>

\* the durations, in seconds, of the generated audio resources
Durations == {2, 4}

\* the click positions of a seek as fractions <<n, d>> of the bar's width:
\* (e.clientX - rect.left) / rect.width
SeekFractions == {<<0 - 1, 2>>, <<0, 1>>, <<1, 2>>, <<1, 1>>, <<3, 2>>}

\* the values of the range input (min 0, max 1, step 0.1) used here
SliderValues == {"0", "0.5", "1"}

\* parseFloat of a slider value, in tenths
ParseFloat(s) == CASE s = "0" -> 0 [] s = "0.5" -> 5 [] s = "1" -> 10

Min(a, b) == IF a < b THEN a ELSE b
Max(a, b) == IF a > b THEN a ELSE b

\* the currentTime setter of a media element keeps the position inside the
\* resource: [0, duration]
SetMediaTime(t, d) == Max(0, Min(t, d))

\* the 'loadedmetadata' and 'loadeddata' events of the element: updateDuration,
\* handleLoadedData
LoadedMetadata(d) ==
    /\ PlayerVisible
    /\ player.elemDuration = 0
    /\ player.media # "error"
    /\ player' = [player EXCEPT !.elemDuration = d, !.duration = d]
    /\ UNCHANGED <<modal, auth, pm, probe, apiKey, user, mounted, page, calls, started, urls, timers, pendingPlays>>

\* playback of the element moves on by a second
PlaybackAdvances ==
    /\ PlayerVisible
    /\ player.media = "playing"
    /\ player.elemTime < player.elemDuration
    /\ player' = [player EXCEPT !.elemTime = @ + 1]
    /\ UNCHANGED <<modal, auth, pm, probe, apiKey, user, mounted, page, calls, started, urls, timers, pendingPlays>>

\* the 'timeupdate' event: updateTime
TimeUpdate ==
    /\ PlayerVisible
    /\ player.currentTime # player.elemTime
    /\ player' = [player EXCEPT !.currentTime = player.elemTime]
    /\ UNCHANGED <<modal, auth, pm, probe, apiKey, user, mounted, page, calls, started, urls, timers, pendingPlays>>

\* the position handleSeek computes: (clickX / rect.width) * duration
NewTime(f, d) == (f[1] * d) \div f[2]

\* a seek that also stops the playing state
HandleSeek_Stops(f) ==
    /\ PlayerVisible
    /\ LET newTime == NewTime(f, player.duration)
           t       == SetMediaTime(newTime, player.elemDuration)
       IN  player' = [player EXCEPT
                        !.elemTime = t,
                        !.media = IF @ = "ended" /\ t < player.elemDuration
                                  THEN "paused" ELSE @,
                        !.isPlaying = FALSE,
                        !.currentTime = newTime]
    /\ UNCHANGED <<modal, auth, pm, probe, apiKey, user, mounted, page, calls, started, urls, timers, pendingPlays>>

\* handleSeek.  A seek of an ended element to a position before its end leaves
\* it paused there
HandleSeek(f) ==
    /\ PlayerVisible
    /\ LET newTime == NewTime(f, player.duration)
           t       == SetMediaTime(newTime, player.elemDuration)
       IN  player' = [player EXCEPT
                        !.elemTime = t,
                        !.media = IF @ = "ended" /\ t < player.elemDuration
                                  THEN "paused" ELSE @,
                        !.currentTime = newTime]
    /\ UNCHANGED <<modal, auth, pm, probe, apiKey, user, mounted, page, calls, started, urls, timers, pendingPlays>>

\* a volume change that sets the state only
HandleVolumeChange_StateOnly(s) ==
    /\ PlayerVisible
    /\ player.volume # ParseFloat(s)
    /\ player' = [player EXCEPT !.volume = ParseFloat(s)]
    /\ UNCHANGED <<modal, auth, pm, probe, apiKey, user, mounted, page, calls, started, urls, timers, pendingPlays>>

\* handleVolumeChange: the onChange of the controlled range input
HandleVolumeChange(s) ==
    /\ PlayerVisible
    /\ player.volume # ParseFloat(s)
    /\ LET newVolume == ParseFloat(s)
       IN  player' = [player EXCEPT !.volume = newVolume, !.elemVolume = newVolume]
    /\ UNCHANGED <<modal, auth, pm, probe, apiKey, user, mounted, page, calls, started, urls, timers, pendingPlays>>

----------------------------------------------------------------------------
\* Specifications

InitPage ==
    /\ apiKey \in ApiKeys
    /\ user \in Users
    /\ mounted = TRUE
    /\ page = [ text |-> <<>>, isGenerating |-> FALSE, progress |-> 0,
                audioUrl |-> NoUrl, audioBlob |-> NoUrl, error |-> "",
                settings |-> DefaultSettings ]
    /\ calls = <<>>
    /\ started = [page |-> 0, direct |-> 0]
    /\ urls = <<>>
    /\ timers = [reset |-> 0, revoke |-> {}]
    /\ player = [ isPlaying |-> FALSE, elem |-> NoUrl, media |-> "none",
                  playRequested |-> FALSE, restarted |-> FALSE,
                  currentTime |-> 0, duration |-> 0, volume |-> DefaultVolume,
                  elemTime |-> 0, elemDuration |-> 0, elemVolume |-> DefaultVolume ]
    /\ pendingPlays = <<>>
    /\ probe = NoProbe
    /\ modal = MountHeader

\* the page opened by a visitor with no stored presets
Init ==
    /\ InitPage
    /\ auth = AuthProviderFor(user)
    /\ pm = MountPresetManager(user, <<>>, <<>>)

\* the page opened with any stored presets (the API key plays no part in them)
PresetInit ==
    /\ InitPage
    /\ auth = AuthProviderFor(user)
    /\ apiKey = "configured"
    /\ \E local \in LocalStores, remote \in RemoteStores :
            pm = MountPresetManager(user, local, remote)

Next ==
    \/ HandleGenerate
    \/ \E i \in 1..Len(calls) : CreateResolves(i)
    \/ \E i \in 1..Len(calls), msg \in ProviderErrors : CreateRejects(i, msg)
    \/ \E i \in 1..Len(calls) : BufferResolves(i)
    \/ \E i \in 1..Len(calls), msg \in ProviderErrors : BufferRejects(i, msg)
    \/ \E i \in 1..Len(calls), ok \in BOOLEAN : SaveSettles(i, ok)
    \/ ResetTimerFires
    \/ \E t \in PageTexts : SetText(t)
    \/ HandleDownload(SomeDate)
    \/ \E u \in 1..Len(urls) : RevokeTimerFires(u)
    \/ Unmount
    \/ TogglePlayPause
    \/ \E k \in 1..Len(pendingPlays) : PlayResolves(k)
    \/ \E k \in 1..Len(pendingPlays) : PlayRejects(k)
    \/ MediaEnded
    \/ MediaError

Spec == Init /\ [][Next]_vars

\* the service alone, called with any text
TTSNext ==
    \/ \E t \in Texts : TTSCall(t)
    \/ \E i \in 1..Len(calls) : CreateResolves(i)
    \/ \E i \in 1..Len(calls), msg \in ProviderErrors : CreateRejects(i, msg)
    \/ \E i \in 1..Len(calls) : BufferResolves(i)
    \/ \E i \in 1..Len(calls), msg \in ProviderErrors : BufferRejects(i, msg)

TTSSpec == Init /\ [][TTSNext]_vars

\* the generations of the page alone
GenNext ==
    \/ HandleGenerate
    \/ \E i \in 1..Len(calls) : CreateResolves(i)
    \/ \E i \in 1..Len(calls), msg \in ProviderErrors : CreateRejects(i, msg)
    \/ \E i \in 1..Len(calls) : BufferResolves(i)
    \/ \E i \in 1..Len(calls), msg \in ProviderErrors : BufferRejects(i, msg)
    \/ \E i \in 1..Len(calls), ok \in BOOLEAN : SaveSettles(i, ok)
    \/ ResetTimerFires
    \/ \E t \in PageTexts : SetText(t)
    \/ Unmount

\* a pending network request of some call settles, either way
RequestSettles ==
    \E i \in 1..Len(calls) :
        \/ CreateResolves(i)
        \/ \E msg \in ProviderErrors : CreateRejects(i, msg)
        \/ BufferResolves(i)
        \/ \E msg \in ProviderErrors : BufferRejects(i, msg)
        \/ \E ok \in BOOLEAN : SaveSettles(i, ok)

\* fairness: every network request (provider, Supabase) settles in the end
GenFairSpec == Init /\ [][GenNext]_vars /\ WF_vars(RequestSettles)

\* the preset manager and the changes of the signed-in user
PresetNext ==
    \/ OpenSaveDialog
    \/ \E name \in PresetNames : HandleSavePreset(name)
    \/ \E k \in 1..Len(pm.presets) : HandleDeletePreset(k)
    \/ \E k \in 1..Len(pm.ops), ok \in BOOLEAN : RequestDone(k, ok)
    \/ \E u \in Users : SignIn(u)
    \/ SignOut

PresetSpec == PresetInit /\ [][PresetNext]_vars

\* the selects operated in SettingsSpec
VariedSettings == {"voiceSpeed", "emotion", "character"}

\* the text, the voice settings and the presets around the generations
SettingsInit ==
    /\ Init
    /\ apiKey = "configured"

SettingsNext ==
    \/ \E t \in PageTexts : SetText(t)
    \/ \E f \in VariedSettings : \E v \in SettingOptions[f] : SetSetting(f, v)
    \/ OpenSaveDialog
    \/ HandleSavePreset("a")
    \/ \E k \in 1..Len(pm.presets) : HandleLoadPreset(k)
    \/ \E k \in 1..Len(pm.ops), ok \in BOOLEAN : RequestDone(k, ok)
    \/ HandleGenerate
    \/ \E i \in 1..Len(calls) : CreateResolves(i)
    \/ \E i \in 1..Len(calls) : BufferResolves(i)
    \/ \E i \in 1..Len(calls), ok \in BOOLEAN : SaveSettles(i, ok)

SettingsSpec == SettingsInit /\ [][SettingsNext]_vars

\* the settings that appear in the file name
NamedSettings == {"character", "voiceSpeed"}

\* the downloads of generated audio, at any time and with any of those settings
DownloadNext ==
    \/ \E t \in PageTexts : SetText(t)
    \/ \E f \in NamedSettings : \E v \in SettingOptions[f] : SetSetting(f, v)
    \/ HandleGenerate
    \/ \E i \in 1..Len(calls) : CreateResolves(i)
    \/ \E i \in 1..Len(calls) : BufferResolves(i)
    \/ \E i \in 1..Len(calls), ok \in BOOLEAN : SaveSettles(i, ok)
    \/ \E now \in Dates : HandleDownload(now)
    \/ \E u \in 1..Len(urls) : RevokeTimerFires(u)

DownloadSpec == SettingsInit /\ [][DownloadNext]_vars

\* AuthProvider from its first render, with the page of a visitor
AuthInit ==
    /\ InitPage
    /\ apiKey = "configured"
    /\ user = "none"
    /\ auth = NewAuthProvider
    /\ pm = MountPresetManager("none", <<>>, <<>>)

AuthNext ==
    \/ \E s \in {"none"} \cup Accounts : GetSessionResolves(s)
    \/ \E u \in Accounts : SignIn(u)
    \/ \E u \in Accounts : SessionChanged(u)
    \/ SignOut
    \/ \E k \in 1..Len(auth.fetches), ok \in BOOLEAN : ProfileFetchDone(k, ok)

AuthSpec == AuthInit /\ [][AuthNext]_vars

\* Header and AuthModal, for a visitor
ModalInit ==
    /\ Init
    /\ apiKey = "configured"
    /\ user = "none"

ModalNext ==
    \/ \E md \in OpenModes : OpenAuthModal(md)
    \/ CloseAuthModal
    \/ \E md \in Modes : SwitchMode(md)
    \/ \E name \in DOMAIN FieldValues : \E value \in FieldValues[name] :
            HandleInputChange(name, value)
    \/ HandleSubmit
    \/ \E k \in 1..Len(modal.submits), ok \in BOOLEAN : SubmitDone(k, ok)

ModalSpec == ModalInit /\ [][ModalNext]_vars

\* the pure functions of TTSService, called with any argument
PureInit ==
    /\ Init
    /\ apiKey = "configured"
    /\ user = "none"

PureNext ==
    \/ \E ch \in CharacterValues, sp \in SpeedValues : MapVoiceSettingsCalled(ch, sp)
    \/ \E w \in 1..MaxWordCount : DurationEstimated(w)

PureSpec == PureInit /\ [][PureNext]_vars

\* the audio player with its position, duration and volume, fed by the
\* generations of a visitor that succeed (the player takes no part in the save
\* of a signed-in user's generation)
PlayerInit ==
    /\ Init
    /\ apiKey = "configured"
    /\ user = "none"

PlayerNext ==
    \/ HandleGenerate
    \/ \E i \in 1..Len(calls) : CreateResolves(i)
    \/ \E i \in 1..Len(calls) : BufferResolves(i)
    \/ \E t \in PageTexts : SetText(t)
    \/ Unmount
    \/ TogglePlayPause
    \/ \E k \in 1..Len(pendingPlays) : PlayResolves(k)
    \/ \E k \in 1..Len(pendingPlays) : PlayRejects(k)
    \/ MediaEnded
    \/ MediaError
    \/ \E d \in Durations : LoadedMetadata(d)
    \/ PlaybackAdvances
    \/ TimeUpdate
    \/ \E f \in SeekFractions : HandleSeek(f)
    \/ \E s \in SliderValues : HandleVolumeChange(s)

PlayerSpec == PlayerInit /\ [][PlayerNext]_vars

----------------------------------------------------------------------------
\* Properties

Settled(c) == c.state # "pending"
LiveUrls == {u \in 1..Len(urls) : urls[u].revoked = 0}
LiveGenerationUrls == {u \in LiveUrls : urls[u].kind = "generation"}
NonDecreasing(log) == \A k \in 1..(Len(log) - 1) : log[k] <= log[k + 1]

\* C1: after every completed generation attempt of the mounted page, either a
\* complete result (audioUrl and audioBlob set, a duration estimate) with an
\* empty error message, or a non-empty error message and no audio
C1_CompleteOrError ==
    \A i \in 1..Len(calls) :
        (mounted /\ calls[i].caller = "page" /\ calls[i].pc = "done") =>
            \/ /\ page.audioUrl # NoUrl
               /\ page.audioBlob # NoUrl
               /\ page.error = ""
               /\ calls[i].result # Undefined
            \/ /\ page.error # ""
               /\ page.audioUrl = NoUrl
               /\ page.audioBlob = NoUrl

\* C2: when the primary provider fails and the fallback delivers no audio either,
\* generateSpeechWithFallback rejects with the one aggregated error; at most one
\* primary and one fallback attempt per call
C2_BothFailAggregated ==
    \A i \in 1..Len(calls) :
        /\ calls[i].primary <= 1
        /\ calls[i].fallback <= 1
        /\ (calls[i].openaiError # "" /\ Settled(calls[i]) /\ calls[i].result = Undefined) =>
              (calls[i].state = "rejected" /\ calls[i].rejection = BothUnavailableMsg)

C4_BlankTextFails ==
    \A i \in 1..Len(calls) :
        (Trim(calls[i].text) = <<>> /\ Settled(calls[i])) =>
            /\ calls[i].state = "rejected"
            /\ calls[i].primary = 0

\* C5: with the API key missing or the placeholder, generateSpeech throws the
\* configuration error before any onProgress call and before any provider
\* request, whatever the text is
C5_KeyCheckFirst ==
    \A i \in 1..Len(calls) :
        KeyNotConfigured =>
            /\ calls[i].openaiError = InvalidKeyMsg
            /\ calls[i].logAtThrow = 0
            /\ calls[i].log = <<>>
            /\ calls[i].primary = 0

C5_Witness ==
    /\ apiKey = "placeholder"
    /\ \E i \in 1..Len(calls) :
        /\ Trim(calls[i].text) = <<>>
        /\ calls[i].text # <<>>
        /\ calls[i].openaiError = InvalidKeyMsg
        /\ calls[i].primary = 0

\* C6: the onProgress values of a call never decrease, the last one is 100 when
\* the call resolves, and none follows the failure of generateSpeech
C6_ProgressSequence ==
    \A i \in 1..Len(calls) :
        LET c == calls[i]
        IN  /\ NonDecreasing(c.log)
            /\ c.state = "resolved" => (c.log # <<>> /\ c.log[Len(c.log)] = 100)
            /\ c.openaiError # "" => Len(c.log) = c.logAtThrow

\* C7 as stated: at most one object URL made for generated audio is live
C7_AtMostOneHandle == Cardinality(LiveUrls) <= 1

\* C7 amended: at most one object URL made by generateSpeech is live, and none is
\* while a later generation of the page is in flight (download URLs excepted)
C7_AtMostOneGenerationHandle ==
    /\ Cardinality(LiveGenerationUrls) <= 1
    /\ \A i \in 1..Len(calls) :
          (calls[i].caller = "page" /\ ~Settled(calls[i])) => LiveGenerationUrls = {}

C7_Witness ==
    /\ Len(urls) >= 2
    /\ urls[1].kind = "generation"
    /\ urls[1].revoked = 1
    /\ page.audioUrl \in LiveGenerationUrls
    /\ page.audioUrl # 1

\* C8: no object URL of a generation result is revoked twice, and once the page
\* has unmounted every one of them has been revoked
C8_ReleasedExactlyOnce ==
    \A u \in 1..Len(urls) :
        urls[u].kind = "generation" =>
            /\ urls[u].revoked <= 1
            /\ ~mounted => urls[u].revoked = 1

\* C9: the player is in the Playing state for the resource of its <audio> element
\* only after a play request made on that element
C9_PlayingOnlyOnRequest ==
    (player.elem # NoUrl /\ player.isPlaying) => player.playRequested

\* C10 as stated: once a resource has ended, it is not played again
C10_EndedIsTerminal ==
    [][(player.media = "ended" /\ player'.elem = player.elem) => player'.media # "playing"]_vars

\* C10 amended: in Ended the player is not playing, and playback of the same
\* resource starts again only by a play request (togglePlayPause calling play())
C10_EndedUntilPlayRequest ==
    [][player.media = "ended" =>
          /\ ~player.isPlaying
          /\ player'.media = "playing" =>
                /\ player'.elem = player.elem
                /\ player'.restarted
                /\ Len(pendingPlays') = Len(pendingPlays) + 1]_vars

C10_Witness ==
    /\ player.restarted
    /\ player.media = "playing"
    /\ player.isPlaying

\* a step of handleSeek, of handleVolumeChange
SeekStep == \E f \in SeekFractions : HandleSeek(f)
VolumeStep == \E s \in SliderValues : HandleVolumeChange(s)

\* C11: after a seek the position handleSeek has set (the currentTime state and
\* the element's currentTime) is within [0, duration], for every fraction
C11_SeekWithinDuration ==
    [][SeekStep =>
          /\ 0 <= player'.currentTime
          /\ player'.currentTime <= player'.duration
          /\ 0 <= player'.elemTime
          /\ player'.elemTime <= player'.elemDuration]_vars

\* C12: a seek leaves isPlaying, the volume and the duration as they were, in
\* the state of the component and on the element
C12_SeekChangesOnlyPosition ==
    [][SeekStep =>
          /\ player'.isPlaying = player.isPlaying
          /\ player'.volume = player.volume
          /\ player'.duration = player.duration
          /\ player'.elemVolume = player.elemVolume
          /\ player'.elemDuration = player.elemDuration
          /\ (player'.media = "playing") = (player.media = "playing")]_vars

\* a seek to a negative position was made while playing (only handleSeek makes
\* the position negative)
C12_Witness ==
    /\ player.isPlaying
    /\ player.media = "playing"
    /\ player.currentTime < 0
    /\ player.volume = 5

\* C13: a volume change sets the volume state and the element's volume to the
\* same value in [0, 1] (0..10 tenths) and leaves isPlaying and the position
C13_VolumeApplied ==
    [][VolumeStep =>
          /\ player'.volume = player'.elemVolume
          /\ player'.volume \in 0..10
          /\ player'.isPlaying = player.isPlaying
          /\ player'.media = player.media
          /\ player'.currentTime = player.currentTime
          /\ player'.elemTime = player.elemTime]_vars

\* the volume was lowered to 0.5 while playing in mid-resource
C13_Witness ==
    /\ player.isPlaying
    /\ player.media = "playing"
    /\ player.elemTime = 1
    /\ player.volume = 5
    /\ player.elemVolume = 5

\* the class of an error message of the service
ErrorClass(msg) ==
    CASE msg = InvalidKeyMsg -> "auth/config"
      [] msg = QuotaMsg      -> "quota/rate-limit"
      [] msg = NetworkMsg    -> "network"
      [] OTHER               -> "unknown"

\* C14: when generateSpeech has failed, the call is rejected with an error of the
\* class of that failure, and the page shows a message of that class
C14_ErrorClassSurfaced ==
    \A i \in 1..Len(calls) :
        LET c == calls[i]
        IN  (c.openaiError # "" /\ Settled(c)) =>
                /\ c.state = "rejected"
                /\ ErrorClass(c.rejection) = ErrorClass(c.openaiError)
                /\ (c.caller = "page" /\ c.pc = "done" /\ mounted) =>
                      (page.error # "" /\ ErrorClass(page.error) = ErrorClass(c.openaiError))

\* C15: when the generation of a signed-in user has succeeded and the save of
\* its record has failed, the audio is still set and live, no error message is
\* shown and isGenerating is false
C15_SaveFailureKeepsAudio ==
    \A i \in 1..Len(calls) :
        LET c == calls[i]
        IN  (c.caller = "page" /\ c.pc = "done" /\ c.saved = "failed"
                /\ c.result # Undefined /\ mounted) =>
                /\ page.audioUrl = c.result.audioUrl
                /\ page.audioBlob = c.result.audioBlob
                /\ page.audioUrl \in LiveGenerationUrls
                /\ page.error = ""
                /\ ~page.isGenerating

C15_Witness ==
    \E i \in 1..Len(calls) :
        /\ user = "u1"
        /\ mounted
        /\ calls[i].caller = "page"
        /\ calls[i].pc = "done"
        /\ calls[i].saved = "failed"
        /\ calls[i].result # Undefined
        /\ page.audioUrl # NoUrl

\* C16: the await of every generation returns exactly once, when the call
\* settles; and while the page is mounted, isGenerating leads to a state where it
\* is false and the Generate button is enabled again
C16_ResumedOnceAndReleased ==
    /\ [](\A i \in 1..Len(calls) :
            /\ calls[i].resumed <= 1
            /\ Settled(calls[i]) <=> calls[i].resumed = 1)
    /\ (page.isGenerating ~> (~mounted \/ (~page.isGenerating /\ ~GenerateButtonDisabled)))

\* a generation finished through the fallback and the controls are usable again
C16_Witness ==
    \E i \in 1..Len(calls) :
        /\ mounted
        /\ calls[i].caller = "page"
        /\ calls[i].openaiError # ""
        /\ calls[i].fallback = 1
        /\ calls[i].resumed = 1
        /\ calls[i].pc = "done"
        /\ ~page.isGenerating
        /\ ~GenerateButtonDisabled

\* the presets of list l that are rows of the remote store
RemotePresets(l) == {k \in 1..Len(l) : l[k].origin = "remote"}

\* C17: while no user is signed in, neither the displayed list nor localStorage
\* holds a preset loaded from the remote store, and no request to the remote
\* store was issued by a save or delete made while signed out
C17_SignedOutLocalOnly ==
    /\ user = "none" =>
          /\ RemotePresets(pm.presets) = {}
          /\ RemotePresets(pm.local) = {}
    /\ \A k \in 1..Len(pm.ops) : pm.ops[k].by # "none"

\* a generation request of the page that has not completed
InFlight(c) == c.caller = "page" /\ c.pc \in {"create", "buffer", "save"}

\* C18: while a generation request of the page is in flight, the text and the
\* voice settings are those the request was started with
C18_FrozenWhileInFlight ==
    \A i \in 1..Len(calls) :
        (InFlight(calls[i]) /\ mounted) =>
            /\ page.isGenerating
            /\ page.text = calls[i].text
            /\ page.settings = calls[i].settings

\* a request with non-default settings is in flight while a preset with other
\* settings is listed
C18_Witness ==
    \E i \in 1..Len(calls) :
        /\ InFlight(calls[i])
        /\ mounted
        /\ calls[i].settings # DefaultSettings
        /\ ~pm.loading
        /\ \E k \in 1..Len(pm.presets) :
              /\ pm.presets[k].origin = (IF user # "none" THEN "remote" ELSE "local")
              /\ pm.presets[k].settings # calls[i].settings

\* the mapping as documented: the fixed table, 'alloy' and 1.0 for anything else
DocumentedVoice(ch) == IF ch \in DOMAIN VoiceMapping THEN VoiceMapping[ch] ELSE "alloy"
DocumentedSpeed(sp) == IF sp \in DOMAIN SpeedMapping THEN SpeedMapping[sp] ELSE "1"

\* C19: mapVoiceSettings gives the voice and speed of the fixed table for known
\* keys, and 'alloy' and 1.0 for every other character and speed label
C19_MappingTotal ==
    probe.op = "mapVoiceSettings" =>
        /\ probe.out.voice = DocumentedVoice(probe.settings.character)
        /\ probe.out.speed = DocumentedSpeed(probe.settings.voiceSpeed)
        /\ probe.out.model = "tts-1"

\* C20: the duration estimate for w words is ceil(w * 60 / 150)
C20_DurationIsCeil ==
    probe.op = "estimatedDuration" =>
        probe.out = (probe.wordCount * 60 + 149) \div 150

\* C21: the duration estimate is monotonic in the word count: of two texts, the
\* one with at least as many words has an estimate at least as large
C21_DurationMonotonic ==
    (probe.op = "estimatedDuration" /\ probe.prior # <<>>) =>
        (probe.prior[1] <= probe.wordCount => probe.prior[2] <= probe.out)

\* the estimates of 155 and then 156 words: the first is rounded up past its
\* exact value, and still does not exceed the second
C21_Witness ==
    /\ probe.op = "estimatedDuration"
    /\ probe.prior = <<155, 63>>
    /\ probe.wordCount = 156
    /\ probe.out = 63

\* the positions of character ch in the string s
PositionsOf(s, ch) == {i \in 1..Len(s) : s[i] = ch}

C23_PlayingMatchesElement ==
    (mounted /\ player.isPlaying) => (player.elem # NoUrl /\ player.media = "playing")

\* C24: whenever the player shows a media element, the volume state (the slider)
\* equals the volume of that element
C24_VolumeMatchesElement ==
    PlayerVisible => player.volume = player.elemVolume

\* C25: while a generation is in progress, the progress value of the page never
\* decreases
C25_ProgressNeverDecreases ==
    [][(mounted /\ page.isGenerating /\ page'.isGenerating) =>
            page'.progress >= page.progress]_vars

\* C26: at most one generation of the page has not completed (its provider
\* request or its save is pending); the audio shown, if any, is the result of the
\* generation started last
C26_OneRequestInFlight ==
    /\ \A i, j \in 1..Len(calls) : (InFlight(calls[i]) /\ InFlight(calls[j])) => i = j
    /\ (mounted /\ page.audioUrl # NoUrl) =>
          \E i \in 1..Len(calls) :
              /\ calls[i].caller = "page"
              /\ \A j \in (i + 1)..Len(calls) : calls[j].caller # "page"
              /\ calls[i].result # Undefined
              /\ calls[i].result.audioUrl = page.audioUrl

\* the second generation is in flight, the first has completed
C26_Witness ==
    /\ started.page = 2
    /\ mounted
    /\ page.isGenerating
    /\ GenerateButtonDisabled
    /\ canGenerate
    /\ \E i \in 1..Len(calls) : InFlight(calls[i]) /\ calls[i].pc = "buffer"

\* a preset name without surrounding whitespace, in lower case
NormalisedName(n) == ToLowerCase(TrimName(n))

\* C27: no two presets of the list have names that are equal ignoring case and
\* surrounding whitespace
C27_NoDuplicateNames ==
    \A i, j \in 1..Len(pm.presets) :
        NormalisedName(pm.presets[i].name) = NormalisedName(pm.presets[j].name) => i = j

\* C28: for a visitor who has not signed in, localStorage['tts-presets'] holds
\* exactly the preset list shown, the empty list included
C28_LocalStorageMatchesList ==
    (user = "none" /\ pm.authChanges = 0) => pm.local = pm.presets

\* C29: userProfile is set only while a user is signed in, and it is the
\* profile of that user
C29_ProfileOfCurrentUser ==
    auth.userProfile # NoProfile => (user # "none" /\ auth.userProfile = user)

\* a step of openAuthModal
OpenStep == \E md \in OpenModes : OpenAuthModal(md)

\* C30: when the modal is opened by openAuthModal(m), the form shown is in
\* mode m
C30_OpensInRequestedMode ==
    [][OpenStep => (modal'.showAuthModal /\ modal'.mode = modal'.authMode)]_vars

====
